---- MODULE Spec2Model ----
(***************************************************************************)
(* Model of package execctx (exec.go).                                     *)
(*                                                                         *)
(* Two components are modelled, each under its own specification:          *)
(*   Spec     - Cmd: Start / Wait / Run, the goroutine Start spawns, the   *)
(*              context being cancelled and the child process exiting.     *)
(*   SpecBuf  - prefixSuffixSaver: Write / fill / Bytes.                   *)
(***************************************************************************)
EXTENDS Integers, Sequences, FiniteSets, TLC

VARIABLES
    \* ---- Cmd (exec.go:16-21) and the os/exec.Cmd it wraps ----
    ctxDone,      \* c.ctx.Done() is closed
    cancel,       \* c.cancel: "nil", or a handler that kills ("kill") or does not ("noop")
    process,      \* c.cmd.Process / ProcessState: "none", "running", "zombie", "reaped"
    exitKind,     \* how the child ended: "none", "exit0", "exit1", "killed"
    waitDone,     \* c.waitDone is closed
    watcher,      \* the goroutine of Start: "none","spawned","parked","woken","inCancel","done"
    chosen,       \* the select case the goroutine committed to: "none", "ctx", "waitDone"
    callerPc,     \* the caller: "idle", "cmdWait", "closeDone", "panicked"
    op,           \* the method the caller last entered: "none", "Start", "Wait", "Run"
    startErr,     \* what the last c.Start() returned
    waitErr,      \* what the last c.Wait() returned ("pending" while it runs)
    runErr,       \* what the last c.Run() returned ("pending" while it runs)
    cancelCalls,  \* number of calls of c.cancel() (exec.go:57)
    killCalls,    \* number of calls of c.cmd.Process.Kill() by the goroutine (exec.go:54)
    closeCalls,   \* number of close(c.waitDone) executed (exec.go:34)
    hist,         \* history of the run, read only by the properties
    \* ---- prefixSuffixSaver (exec.go:124-136) ----
    N, prefix, suffix, suffixOff, skipped,
    stream,       \* every byte ever passed to Write, in order (history)
    out,          \* the last result of Bytes()
    bufOp,        \* the method last called on the saver: "none", "Write", "Bytes"
    \* ---- c.cmd.Stdout, c.cmd.Stderr and the calls of CombinedOutput and Output ----
    stdout,       \* c.cmd.Stdout: "nil", "caller" (set by the caller), "buffer"
    stderr,       \* c.cmd.Stderr: "nil", "caller", "buffer", "saver"
    io            \* the last call of CombinedOutput or Output: what it found, did
                  \* and returned

\* cmdVars without op.
cmdVars_noOp == <<ctxDone, cancel, process, exitKind, waitDone, watcher, chosen,
                  callerPc, startErr, waitErr, runErr, cancelCalls, killCalls,
                  closeCalls, hist>>
cmdVars == <<ctxDone, cancel, process, exitKind, waitDone, watcher, chosen, callerPc,
             op, startErr, waitErr, runErr, cancelCalls, killCalls, closeCalls, hist>>
bufVars == <<N, prefix, suffix, suffixOff, skipped, stream, out, bufOp>>
ioVars == <<stdout, stderr, io>>
vars == <<cmdVars, bufVars, ioVars>>

(***************************************************************************)
(* Cmd                                                                     *)
(***************************************************************************)

\* FromCmd(ctx, cmd, cancel): the handler is nil or a caller's function. The two
\* custom handlers are the README's (ends with cmd.Process.Kill()) and one that
\* does not make the process exit.
Handlers == {"nil", "kill", "noop"}

InitHist ==
    [ startSawDone   |-> FALSE,  \* ctx was done when the last Start was entered
      startSpawned   |-> FALSE,  \* the last Start called c.cmd.Start()
      startWent      |-> FALSE,  \* the last Start ran its go statement
      doneAtFirst    |-> "unset",\* ctxDone when Start was first entered
      waitFirst      |-> FALSE,  \* waitDone was closed, with the goroutine started,
                                 \* while ctx was not done
      selectEarly    |-> FALSE,  \* the goroutine reached its select before ctx was done
      cancelLive     |-> FALSE,  \* ctx was cancelled after a successful Start, with
                                 \* the process running and waitDone open
      cancelStarted  |-> FALSE,  \* ctx was cancelled after a successful Start
      exitBeforeCtx  |-> FALSE,  \* the process exited by itself while ctx was not done
      selectBoth     |-> FALSE,  \* both cases were ready when the goroutine reached
                                 \* its select
      killedRunning  |-> FALSE,  \* the goroutine's Kill found the process running
      closedEarly    |-> FALSE,  \* waitDone was closed by a Wait whose cmd.Wait failed
      handlerKilled  |-> FALSE ] \* the custom handler's Kill ended the process

InitCmd ==
    /\ ctxDone = FALSE
    /\ cancel \in Handlers
    /\ process = "none"
    /\ exitKind = "none"
    /\ waitDone = FALSE
    /\ watcher = "none"
    /\ chosen = "none"
    /\ callerPc = "idle"
    /\ op = "none"
    /\ startErr = "none"
    /\ waitErr = "none"
    /\ runErr = "none"
    /\ cancelCalls = 0
    /\ killCalls = 0
    /\ closeCalls = 0
    /\ hist = InitHist

\* os/exec Cmd.Start as c.Start uses it (exec.go:46): "exec: already started" when
\* the command has a Process, otherwise the spawn works (ok) or fails.
cmdStart(ok) ==
    IF process # "none" THEN "alreadyStarted"
    ELSE IF ok THEN "nil" ELSE "spawnErr"

\* Process.Kill(): SIGKILL ends a running child; on a child that has already exited
\* it does nothing (it returns an error nobody reads).
KillEffect ==
    IF process = "running"
    THEN /\ process' = "zombie"
         /\ exitKind' = "killed"
    ELSE UNCHANGED <<process, exitKind>>

\* Bug variant: Start without the check of c.ctx.Done() at exec.go:40-44.
StartCallsSpawnUnchecked == TRUE

\* Whether Start gets past its first select (exec.go:40-44) to c.cmd.Start(): only
\* when the context is not done yet.
StartCallsSpawn == ~ctxDone

\* The error Start returns: ctx.Err() when the context is done on entry (exec.go:42),
\* else the error of c.cmd.Start() (exec.go:46-48), else nil (exec.go:62).
StartResult(ok) ==
    IF ~StartCallsSpawn THEN "ctxErr" ELSE cmdStart(ok)

\* Bug variant: Start goes on to its go statement although c.cmd.Start() failed.
StartSpawnsWatcherAlways(ok) == StartCallsSpawn

\* Whether Start reaches `go func()` (exec.go:50): only past both early returns.
StartSpawnsWatcher(ok) == StartCallsSpawn /\ cmdStart(ok) = "nil"

\* Cmd.Start (exec.go:39-63). A cancellation between the ctx check and the spawn
\* leads to the same states as one right after Start returns, since the goroutine
\* started at line 50 has not run yet; Start is therefore one step.
StartBody(ok) ==
    /\ startErr' = StartResult(ok)
    /\ IF StartCallsSpawn /\ cmdStart(ok) = "nil"
       THEN process' = "running"
       ELSE process' = process
    /\ IF StartSpawnsWatcher(ok)
       THEN watcher' = "spawned" /\ chosen' = "none"
       ELSE UNCHANGED <<watcher, chosen>>
    /\ hist' = [hist EXCEPT !.startSawDone = ctxDone,
                            !.startSpawned = StartCallsSpawn,
                            !.startWent = StartSpawnsWatcher(ok),
                            !.doneAtFirst = IF @ = "unset"
                                           THEN (IF ctxDone THEN "yes" ELSE "no")
                                           ELSE @]
    /\ UNCHANGED exitKind

Running == callerPc # "panicked"

\* The caller calls c.Start().
CallStart ==
    /\ UNCHANGED <<bufVars, ioVars>>
    /\ callerPc = "idle"
    /\ \E ok \in BOOLEAN : StartBody(ok)
    /\ op' = "Start"
    /\ UNCHANGED <<ctxDone, cancel, waitDone, callerPc, waitErr, runErr,
                   cancelCalls, killCalls, closeCalls>>

\* What Run returns when Start returned err (exec.go:67-70).
RunStartFailed(err) == "nil"

\* The methods that call c.Run(): Run itself, CombinedOutput (exec.go:87) and Output
\* (exec.go:105).
RunOps == {"Run", "CombinedOutput", "Output"}

\* The caller calls c.Run() (exec.go:66-73): Start, then either the early return or
\* the call of c.Wait(), which is entered here and goes on in CmdWaitReturns.
CallRun ==
    /\ UNCHANGED <<bufVars, ioVars>>
    /\ callerPc = "idle"
    /\ \E ok \in BOOLEAN : StartBody(ok)
    /\ op' = "Run"
    /\ IF startErr' # "nil"
       THEN /\ runErr' = RunStartFailed(startErr')
            /\ callerPc' = "idle"
            /\ UNCHANGED waitErr
       ELSE /\ runErr' = "pending"
            /\ waitErr' = "pending"
            /\ callerPc' = "cmdWait"
    /\ UNCHANGED <<ctxDone, cancel, waitDone, cancelCalls, killCalls, closeCalls>>

\* The caller calls c.Wait() (exec.go:32-33) and enters c.cmd.Wait().
CallWait ==
    /\ UNCHANGED <<bufVars, ioVars>>
    /\ callerPc = "idle"
    /\ op' = "Wait"
    /\ waitErr' = "pending"
    /\ callerPc' = "cmdWait"
    /\ UNCHANGED <<ctxDone, cancel, process, exitKind, waitDone, watcher, chosen,
                   startErr, runErr, cancelCalls, killCalls, closeCalls, hist>>

\* os/exec Cmd.Wait (exec.go:33): "exec: not started" without a Process, "exec: Wait
\* was already called" once reaped, otherwise it blocks until the child has exited
\* and returns how it ended.
cmdWaitReady == process \in {"none", "zombie", "reaped"}
cmdWaitResult ==
    CASE process = "none"   -> "notStarted"
      [] process = "reaped" -> "alreadyWaited"
      [] OTHER              -> IF exitKind = "exit0" THEN "nil" ELSE exitKind

\* c.cmd.Wait() returns inside c.Wait (exec.go:33); close(c.waitDone) is next.
CmdWaitReturns ==
    /\ UNCHANGED <<bufVars, ioVars>>
    /\ callerPc = "cmdWait"
    /\ cmdWaitReady
    /\ waitErr' = cmdWaitResult
    /\ process' = IF process = "zombie" THEN "reaped" ELSE process
    /\ callerPc' = "closeDone"
    /\ hist' = [hist EXCEPT !.closedEarly = @ \/ (process # "zombie" /\ ~waitDone)]
    /\ UNCHANGED <<ctxDone, cancel, exitKind, waitDone, watcher, chosen, op,
                   startErr, runErr, cancelCalls, killCalls, closeCalls>>

\* Bug variant: the select of the goroutine without its `case <-c.waitDone`, so that
\* closing waitDone never wakes it.
WakeCtxOnly(case) ==
    IF watcher = "parked" /\ case = "ctx"
    THEN watcher' = "woken" /\ chosen' = case
    ELSE UNCHANGED <<watcher, chosen>>

\* The goroutine parked in its select is woken by the channel that becomes ready and
\* is committed to that case.
Wake(case) ==
    IF watcher = "parked"
    THEN watcher' = "woken" /\ chosen' = case
    ELSE UNCHANGED <<watcher, chosen>>

\* close(c.waitDone) and the return of c.Wait (exec.go:34-35); closing a closed
\* channel panics. Inside Run the result is Run's result too (exec.go:72), and
\* CombinedOutput and Output go on after their call of Run.
CloseWaitDone ==
    /\ UNCHANGED <<bufVars, ioVars>>
    /\ callerPc = "closeDone"
    /\ closeCalls' = closeCalls + 1
    /\ IF waitDone
       THEN /\ callerPc' = "panicked"
            /\ UNCHANGED <<waitDone, watcher, chosen, runErr, hist>>
       ELSE /\ waitDone' = TRUE
            /\ Wake("waitDone")
            /\ callerPc' = IF op \in {"CombinedOutput", "Output"} THEN "afterRun"
                           ELSE "idle"
            /\ runErr' = IF op \in RunOps THEN waitErr ELSE runErr
            /\ hist' = [hist EXCEPT !.waitFirst = ~ctxDone /\ watcher # "none"]
    /\ UNCHANGED <<ctxDone, cancel, process, exitKind, op, startErr, waitErr,
                   cancelCalls, killCalls>>

\* Bug variant: a select that never sees waitDone closed.
SelectReadyCtxOnly == IF ctxDone THEN {"ctx"} ELSE {}

\* The cases of the select at exec.go:51-59 that can proceed.
SelectReady ==
    (IF ctxDone THEN {"ctx"} ELSE {}) \cup (IF waitDone THEN {"waitDone"} ELSE {})

\* The goroutine reaches its select (exec.go:51): one of the ready cases is taken
\* (Go picks among several at random), or it parks until a channel is ready.
WatcherSelect ==
    /\ UNCHANGED <<bufVars, ioVars>>
    /\ Running
    /\ watcher = "spawned"
    /\ IF SelectReady = {}
       THEN watcher' = "parked" /\ chosen' = "none"
       ELSE \E c \in SelectReady : watcher' = "woken" /\ chosen' = c
    /\ hist' = [hist EXCEPT !.selectEarly = @ \/ ~ctxDone,
                            !.selectBoth = SelectReady = {"ctx", "waitDone"}]
    /\ UNCHANGED <<ctxDone, cancel, process, exitKind, waitDone, callerPc, op,
                   startErr, waitErr, runErr, cancelCalls, killCalls, closeCalls>>

\* Bug variant: with a nil handler the goroutine returns without killing.
WatcherKillSkipped ==
    /\ UNCHANGED <<bufVars, ioVars>>
    /\ Running
    /\ watcher = "woken" /\ chosen = "ctx"
    /\ cancel = "nil"
    /\ watcher' = "done"
    /\ UNCHANGED <<ctxDone, cancel, process, exitKind, waitDone, chosen, callerPc,
                   op, startErr, waitErr, runErr, cancelCalls, killCalls, closeCalls,
                   hist>>

\* Bug variant: the select in a `for` loop whose kill branch does not return.
WatcherKillLoops ==
    /\ UNCHANGED <<bufVars, ioVars>>
    /\ Running
    /\ watcher = "woken" /\ chosen = "ctx"
    /\ cancel = "nil"
    /\ killCalls' = killCalls + 1
    /\ KillEffect
    /\ watcher' = "woken"
    /\ UNCHANGED <<ctxDone, cancel, waitDone, chosen, callerPc, op, startErr,
                   waitErr, runErr, cancelCalls, closeCalls, hist>>

\* case <-c.ctx.Done() with c.cancel == nil (exec.go:52-56).
WatcherKill ==
    /\ UNCHANGED <<bufVars, ioVars>>
    /\ Running
    /\ watcher = "woken" /\ chosen = "ctx"
    /\ cancel = "nil"
    /\ killCalls' = killCalls + 1
    /\ KillEffect
    /\ watcher' = "done"
    /\ hist' = [hist EXCEPT !.killedRunning = process = "running"]
    /\ UNCHANGED <<ctxDone, cancel, waitDone, chosen, callerPc, op, startErr,
                   waitErr, runErr, cancelCalls, closeCalls>>

\* Bug variant: with a handler set the goroutine kills instead of calling it.
WatcherCancelKillsInstead ==
    /\ UNCHANGED <<bufVars, ioVars>>
    /\ Running
    /\ watcher = "woken" /\ chosen = "ctx"
    /\ cancel # "nil"
    /\ killCalls' = killCalls + 1
    /\ KillEffect
    /\ watcher' = "done"
    /\ UNCHANGED <<ctxDone, cancel, waitDone, chosen, callerPc, op, startErr,
                   waitErr, runErr, cancelCalls, closeCalls, hist>>

\* Bug variant: no `return`-like end after c.cancel(): the goroutine also kills.
CancelReturnsThenKills ==
    /\ UNCHANGED <<bufVars, ioVars>>
    /\ Running
    /\ watcher = "inCancel"
    /\ killCalls' = killCalls + 1
    /\ KillEffect
    /\ watcher' = "done"
    /\ UNCHANGED <<ctxDone, cancel, waitDone, chosen, callerPc, op, startErr,
                   waitErr, runErr, cancelCalls, closeCalls, hist>>

\* case <-c.ctx.Done() with a handler: c.cancel() is called (exec.go:57).
WatcherCancel ==
    /\ UNCHANGED <<bufVars, ioVars>>
    /\ Running
    /\ watcher = "woken" /\ chosen = "ctx"
    /\ cancel # "nil"
    /\ cancelCalls' = cancelCalls + 1
    /\ watcher' = "inCancel"
    /\ UNCHANGED <<ctxDone, cancel, process, exitKind, waitDone, chosen, callerPc,
                   op, startErr, waitErr, runErr, killCalls, closeCalls, hist>>

\* c.cancel() returns and the goroutine ends (exec.go:57-60). The README's handler
\* has killed the process by then; the other handler has not touched it.
CancelReturns ==
    /\ UNCHANGED <<bufVars, ioVars>>
    /\ Running
    /\ watcher = "inCancel"
    /\ IF cancel = "kill"
       THEN /\ KillEffect
            /\ hist' = [hist EXCEPT !.handlerKilled = @ \/ process = "running"]
       ELSE UNCHANGED <<process, exitKind, hist>>
    /\ watcher' = "done"
    /\ UNCHANGED <<ctxDone, cancel, waitDone, chosen, callerPc, op, startErr,
                   waitErr, runErr, cancelCalls, killCalls, closeCalls>>

\* Bug variant: the process is killed whichever case of the select fired.
WatcherWaitDoneKills ==
    /\ UNCHANGED <<bufVars, ioVars>>
    /\ Running
    /\ watcher = "woken" /\ chosen = "waitDone"
    /\ killCalls' = killCalls + 1
    /\ KillEffect
    /\ watcher' = "done"
    /\ UNCHANGED <<ctxDone, cancel, waitDone, chosen, callerPc, op, startErr,
                   waitErr, runErr, cancelCalls, closeCalls, hist>>

\* case <-c.waitDone: the goroutine ends (exec.go:58-60).
WatcherWaitDone ==
    /\ UNCHANGED <<bufVars, ioVars>>
    /\ Running
    /\ watcher = "woken" /\ chosen = "waitDone"
    /\ watcher' = "done"
    /\ UNCHANGED <<ctxDone, cancel, process, exitKind, waitDone, chosen, callerPc,
                   op, startErr, waitErr, runErr, cancelCalls, killCalls, closeCalls,
                   hist>>

\* The owner of the context cancels it.
Cancel ==
    /\ UNCHANGED <<bufVars, ioVars>>
    /\ Running
    /\ ~ctxDone
    /\ ctxDone' = TRUE
    /\ Wake("ctx")
    /\ hist' = [hist EXCEPT
                  !.cancelStarted = watcher # "none",
                  !.cancelLive = watcher # "none" /\ process = "running" /\ ~waitDone]
    /\ UNCHANGED <<cancel, process, exitKind, waitDone, callerPc, op, startErr,
                   waitErr, runErr, cancelCalls, killCalls, closeCalls>>

\* The child process exits by itself, with status 0 or not.
ProcessExits ==
    /\ UNCHANGED <<bufVars, ioVars>>
    /\ Running
    /\ process = "running"
    /\ process' = "zombie"
    /\ \E k \in {"exit0", "exit1"} : exitKind' = k
    /\ hist' = [hist EXCEPT !.exitBeforeCtx = ~ctxDone]
    /\ UNCHANGED <<ctxDone, cancel, waitDone, watcher, chosen, callerPc, op,
                   startErr, waitErr, runErr, cancelCalls, killCalls, closeCalls>>

(***************************************************************************)
(* prefixSuffixSaver                                                       *)
(***************************************************************************)

\* Bounds of the model: capacities 1..MaxN, Write calls of 0..MaxChunk bytes, at most
\* MaxTotal bytes written in all.
MaxN == 4
MaxChunk == 9
MaxTotal == 13

\* A byte is its code. The i-th byte ever written is the i-th capital letter, so that
\* any byte kept out of place or twice shows: "ABCDEFGHIJ" is <<65, ..., 74>>.
ByteAt(i) == 64 + i

\* The bytes of the next Write of n bytes.
Chunk(n) == [i \in 1..n |-> ByteAt(Len(stream) + i)]

InitBuf ==
    /\ N \in 1..MaxN
    /\ prefix = <<>>
    /\ suffix = <<>>
    /\ suffixOff = 0
    /\ skipped = 0
    /\ stream = <<>>
    /\ out = <<>>
    /\ bufOp = "none"

\* minInt (exec.go:191-196).
minInt(a, b) == IF a < b THEN a ELSE b

\* p[k:] of a Go slice.
From(p, k) == SubSeq(p, k + 1, Len(p))

\* Bug variant: fill without its bound on len(dst).
fillUnbounded(dst, p) == [dst |-> dst \o p, p |-> <<>>]

\* fill (exec.go:164-171): dst grown by at most N - len(dst) bytes of p, and the
\* rest of p.
fill(dst, p) ==
    LET remain == N - Len(dst) IN
    IF remain > 0
    THEN LET add == minInt(Len(p), remain)
         IN  [dst |-> dst \o SubSeq(p, 1, add), p |-> From(p, add)]
    ELSE [dst |-> dst, p |-> p]

\* copy(w.suffix[off:], p) (exec.go:151): the suffix after the copy.
copyInto(sfx, off, p) ==
    LET n == minInt(Len(sfx) - off, Len(p))
    IN  [i \in 1..Len(sfx) |-> IF i > off /\ i <= off + n THEN p[i - off] ELSE sfx[i]]

\* Bug variant: the offset goes back to 0 one byte early.
NextOffEarly(off, n) == IF off + n >= N - 1 THEN 0 ELSE off + n

\* The offset after n more bytes were written at off (exec.go:154-157).
NextOff(off, n) == IF off + n = N THEN 0 ELSE off + n

\* Bug variant: the loop of Write without `w.skipped += int64(n)`.
RECURSIVE OverwriteUncounted(_)
OverwriteUncounted(st) ==
    IF Len(st.p) > 0
    THEN LET n == minInt(Len(st.suffix) - st.suffixOff, Len(st.p))
         IN  OverwriteUncounted([suffix    |-> copyInto(st.suffix, st.suffixOff, st.p),
                                 p         |-> From(st.p, n),
                                 skipped   |-> st.skipped,
                                 suffixOff |-> IF st.suffixOff + n = N THEN 0
                                               ELSE st.suffixOff + n])
    ELSE st

\* The loop of Write (exec.go:150-158) from the state st = [suffix, suffixOff,
\* skipped, p], run until p is empty.
RECURSIVE Overwrite(_)
Overwrite(st) ==
    IF Len(st.p) > 0
    THEN LET n == minInt(Len(st.suffix) - st.suffixOff, Len(st.p))
         IN  Overwrite([suffix    |-> copyInto(st.suffix, st.suffixOff, st.p),
                        p         |-> From(st.p, n),
                        skipped   |-> st.skipped + n,
                        suffixOff |-> NextOff(st.suffixOff, n)])
    ELSE st

\* Bug variant: the bytes dropped before the suffix are not counted.
OverageSkippedDropped(overage) == 0

\* What Write adds to skipped for the bytes it drops before the suffix
\* (exec.go:143-146).
OverageSkipped(overage) == overage

\* prefixSuffixSaver.Write (exec.go:138-160): the fields after Write(p).
WriteResult(p) ==
    LET f1      == fill(prefix, p)
        overage == Len(f1.p) - N
        p2      == IF overage > 0 THEN From(f1.p, overage) ELSE f1.p
        skipped2 == IF overage > 0 THEN skipped + OverageSkipped(overage) ELSE skipped
        f2      == fill(suffix, p2)
        looped  == Overwrite([suffix |-> f2.dst, suffixOff |-> suffixOff,
                              skipped |-> skipped2, p |-> f2.p])
    IN  [prefix |-> f1.dst, suffix |-> looped.suffix,
         suffixOff |-> looped.suffixOff, skipped |-> looped.skipped]

\* strconv.FormatInt(n, 10) for n >= 0 (exec.go:184), as byte codes.
RECURSIVE FormatInt(_)
FormatInt(n) ==
    IF n < 10 THEN <<48 + n>> ELSE FormatInt(n \div 10) \o <<48 + (n % 10)>>

\* "\n... omitting " and " bytes ...\n" (exec.go:183, 185), as byte codes.
OmittingHead == <<10, 46, 46, 46, 32, 111, 109, 105, 116, 116, 105, 110, 103, 32>>
OmittingTail == <<32, 98, 121, 116, 101, 115, 32, 46, 46, 46, 10>>

\* The suffix as Bytes writes it (exec.go:186-187): w.suffix[w.suffixOff:] and then
\* w.suffix[:w.suffixOff].
SuffixInOrder == From(suffix, suffixOff) \o SubSeq(suffix, 1, suffixOff)

\* Bug variant: Bytes that writes the omission message whenever there is a suffix.
BytesAlwaysMarks ==
    IF suffix = <<>> THEN prefix
    ELSE prefix \o OmittingHead \o FormatInt(skipped) \o OmittingTail \o SuffixInOrder

\* prefixSuffixSaver.Bytes (exec.go:173-189). A suffix never appended to is nil.
Bytes ==
    IF suffix = <<>> THEN prefix
    ELSE IF skipped = 0 THEN prefix \o suffix
    ELSE prefix \o OmittingHead \o FormatInt(skipped) \o OmittingTail \o SuffixInOrder

\* Bug variant: Bytes that puts the ring in order in place and leaves the offset
\* (the rearrangement the TODO at exec.go:131-135 thinks of, done wrongly).
BytesEffectRotates ==
    /\ suffix' = SuffixInOrder
    /\ UNCHANGED <<prefix, suffixOff, skipped>>

\* What Bytes does to the fields (exec.go:173-189): it reads them only; the slices
\* it returns are w.prefix itself, an append to it, or a fresh buffer.
BytesEffect == UNCHANGED <<prefix, suffix, suffixOff, skipped>>

\* The process's output is written to the saver: one call of Write with n bytes.
Write ==
    /\ UNCHANGED <<cmdVars, ioVars>>
    /\ \E n \in 0..MaxChunk :
         /\ Len(stream) + n <= MaxTotal
         /\ LET r == WriteResult(Chunk(n)) IN
              /\ prefix' = r.prefix
              /\ suffix' = r.suffix
              /\ suffixOff' = r.suffixOff
              /\ skipped' = r.skipped
         /\ stream' = stream \o Chunk(n)
    /\ bufOp' = "Write"
    /\ UNCHANGED <<N, out>>

\* Bytes() is called and its result kept.
CallBytes ==
    /\ UNCHANGED <<cmdVars, ioVars>>
    /\ out' = Bytes
    /\ BytesEffect
    /\ bufOp' = "Bytes"
    /\ UNCHANGED <<N, stream>>

\* Before any call of CombinedOutput or Output.
InitIo ==
    [ err       |-> "none",   \* the error the call returned ("pending" while it runs)
      attached  |-> FALSE,    \* the call set ee.Stderr on the error it returned
      eeStderr  |-> <<>>,     \* the bytes it set ee.Stderr to
      captureErr |-> FALSE,   \* captureErr of Output (exec.go:100)
      preStdout |-> "nil",    \* c.cmd.Stdout and c.cmd.Stderr when the call was entered
      preStderr |-> "nil",
      ran       |-> FALSE,    \* the call went on to c.Run()
      wired     |-> FALSE ]   \* its Run started the process, with the saver as the
                              \* process's stderr

\* A command whose caller set neither Stdout nor Stderr and calls neither
\* CombinedOutput nor Output.
InitIoIdle ==
    /\ stdout = "nil"
    /\ stderr = "nil"
    /\ io = InitIo

\* The saver while no command is run.
InitBufIdle ==
    /\ N = 1 /\ prefix = <<>> /\ suffix = <<>> /\ suffixOff = 0 /\ skipped = 0
    /\ stream = <<>> /\ out = <<>> /\ bufOp = "none"

\* A saver of any capacity, beside a command that is not run.
InitSaver == InitCmd /\ InitBuf /\ InitIoIdle

NextBuf ==
    \/ Write
    \/ CallBytes

SpecBuf == InitSaver /\ [][NextBuf]_vars

(***************************************************************************)
(* CombinedOutput and Output                                               *)
(***************************************************************************)

\* Bounds of the model of Output: the saver of exec.go:102 has a capacity of
\* 1..MaxErrN here, and the process writes at most MaxErrBytes bytes to stderr.
MaxErrN == 1
MaxErrBytes == 3

\* Bug variant: CombinedOutput that checks Stdout only.
CombinedOutputErrStdoutOnly ==
    IF stdout # "nil" THEN "stdoutSet" ELSE "nil"

\* The error CombinedOutput returns before doing anything (exec.go:78-83).
CombinedOutputErr ==
    IF stdout # "nil" THEN "stdoutSet"
    ELSE IF stderr # "nil" THEN "stderrSet"
    ELSE "nil"

\* Bug variant: Output without its check of Stdout.
OutputErrUnchecked == "nil"

\* The error Output returns before doing anything (exec.go:94-96).
OutputErr == IF stdout # "nil" THEN "stdoutSet" ELSE "nil"

\* Bug variant: Output that captures stderr whatever the caller has set.
OutputCaptureErrAlways == TRUE

\* captureErr := c.cmd.Stderr == nil (exec.go:100).
OutputCaptureErr == stderr = "nil"

\* err.(*exec.ExitError) succeeds (exec.go:107): the child exited with a status
\* other than 0 or was killed by a signal.
IsExitError(err) == err \in {"exit1", "killed"}

\* Whether Output sets ee.Stderr on the error err of Run (exec.go:106-110).
OutputAttaches(err) == err # "nil" /\ io.captureErr /\ IsExitError(err)

\* c.Run() as CombinedOutput and Output call it (exec.go:87, 105): Start, then
\* Run's early return or c.Wait(), which goes on in CmdWaitReturns.
RunFromOutput ==
    /\ \E ok \in BOOLEAN : StartBody(ok)
    /\ IF startErr' # "nil"
       THEN /\ runErr' = RunStartFailed(startErr')
            /\ callerPc' = "afterRun"
            /\ UNCHANGED waitErr
       ELSE /\ runErr' = "pending"
            /\ waitErr' = "pending"
            /\ callerPc' = "cmdWait"
    /\ UNCHANGED <<ctxDone, cancel, waitDone, cancelCalls, killCalls, closeCalls>>

\* The caller calls c.CombinedOutput() (exec.go:77-87).
CallCombinedOutput ==
    /\ UNCHANGED bufVars
    /\ callerPc = "idle"
    /\ op' = "CombinedOutput"
    /\ IF CombinedOutputErr # "nil"
       THEN /\ io' = [InitIo EXCEPT !.err = CombinedOutputErr,
                                    !.preStdout = stdout, !.preStderr = stderr]
            /\ UNCHANGED <<cmdVars_noOp, stdout, stderr>>
       ELSE /\ stdout' = "buffer"
            /\ stderr' = "buffer"
            /\ io' = [InitIo EXCEPT !.err = "pending", !.ran = TRUE,
                                    !.preStdout = stdout, !.preStderr = stderr]
            /\ RunFromOutput

\* CombinedOutput returns the error of Run (exec.go:87-88).
CombinedOutputReturns ==
    /\ UNCHANGED <<bufVars, stdout, stderr>>
    /\ callerPc = "afterRun"
    /\ op = "CombinedOutput"
    /\ io' = [io EXCEPT !.err = runErr]
    /\ callerPc' = "idle"
    /\ UNCHANGED <<ctxDone, cancel, process, exitKind, waitDone, watcher, chosen, op,
                   startErr, waitErr, runErr, cancelCalls, killCalls, closeCalls, hist>>

\* The caller calls c.Output() (exec.go:93-105). The saver of line 102 is new.
CallOutput ==
    /\ callerPc = "idle"
    /\ op' = "Output"
    /\ IF OutputErr # "nil"
       THEN /\ io' = [InitIo EXCEPT !.err = OutputErr,
                                    !.preStdout = stdout, !.preStderr = stderr]
            /\ UNCHANGED <<cmdVars_noOp, stdout, stderr, bufVars>>
       ELSE /\ stdout' = "buffer"
            /\ stderr' = IF OutputCaptureErr THEN "saver" ELSE stderr
            /\ IF OutputCaptureErr
               THEN /\ prefix' = <<>> /\ suffix' = <<>>
                    /\ suffixOff' = 0 /\ skipped' = 0
                    /\ stream' = <<>>
                    /\ bufOp' = "none"
                    /\ UNCHANGED <<N, out>>
               ELSE UNCHANGED bufVars
            /\ RunFromOutput
            /\ io' = [InitIo EXCEPT !.err = "pending", !.ran = TRUE,
                                    !.captureErr = OutputCaptureErr,
                                    !.preStdout = stdout, !.preStderr = stderr,
                                    !.wired = OutputCaptureErr /\ startErr' = "nil"]

\* Output after Run (exec.go:106-111): with captureErr and an ExitError, ee.Stderr
\* is set to the Bytes() of the saver.
OutputReturns ==
    /\ callerPc = "afterRun"
    /\ op = "Output"
    /\ io' = [io EXCEPT !.err = runErr,
                        !.attached = OutputAttaches(runErr),
                        !.eeStderr = IF OutputAttaches(runErr) THEN Bytes ELSE <<>>]
    /\ IF OutputAttaches(runErr)
       THEN /\ out' = Bytes
            /\ BytesEffect
            /\ bufOp' = "Bytes"
            /\ UNCHANGED <<N, stream>>
       ELSE UNCHANGED bufVars
    /\ callerPc' = "idle"
    /\ UNCHANGED <<stdout, stderr>>
    /\ UNCHANGED <<ctxDone, cancel, process, exitKind, waitDone, watcher, chosen, op,
                   startErr, waitErr, runErr, cancelCalls, killCalls, closeCalls, hist>>

\* The process writes n bytes to its stderr, which os/exec copies to the saver until
\* c.cmd.Wait() returns. Only a process started with the saver as c.cmd.Stderr
\* writes to it.
StderrWrite ==
    /\ UNCHANGED <<cmdVars, ioVars>>
    /\ Running
    /\ stderr = "saver"
    /\ io.wired
    /\ process \in {"running", "zombie"}
    /\ \E n \in 1..MaxErrBytes :
         /\ Len(stream) + n <= MaxErrBytes
         /\ LET r == WriteResult(Chunk(n)) IN
              /\ prefix' = r.prefix
              /\ suffix' = r.suffix
              /\ suffixOff' = r.suffixOff
              /\ skipped' = r.skipped
         /\ stream' = stream \o Chunk(n)
    /\ bufOp' = "Write"
    /\ UNCHANGED <<N, out>>

\* A command whose caller may have set Stdout and Stderr, and whose Output makes a
\* saver of capacity N.
InitOutput ==
    /\ InitCmd
    /\ InitBuf
    /\ N <= MaxErrN
    /\ stdout \in {"nil", "caller"}
    /\ stderr \in {"nil", "caller"}
    /\ io = InitIo

Init == InitCmd /\ InitBufIdle /\ InitIoIdle

Next ==
    \/ CallStart
    \/ CallRun
    \/ CallWait
    \/ CmdWaitReturns
    \/ CloseWaitDone
    \/ WatcherSelect
    \/ WatcherKill
    \/ WatcherCancel
    \/ CancelReturns
    \/ WatcherWaitDone
    \/ Cancel
    \/ ProcessExits

Spec == Init /\ [][Next]_vars

NextOutput ==
    \/ CallStart
    \/ CallRun
    \/ CallWait
    \/ CallCombinedOutput
    \/ CallOutput
    \/ CmdWaitReturns
    \/ CloseWaitDone
    \/ CombinedOutputReturns
    \/ OutputReturns
    \/ WatcherSelect
    \/ WatcherKill
    \/ WatcherCancel
    \/ CancelReturns
    \/ WatcherWaitDone
    \/ Cancel
    \/ ProcessExits
    \/ StderrWrite

\* Cmd with CombinedOutput and Output, and a process that writes to stderr.
SpecOutput == InitOutput /\ [][NextOutput]_vars

\* The Go scheduler runs every runnable goroutine: the goroutine of Start takes its
\* steps, the handlers modelled here return, and a Wait whose child has exited returns.
\* Nothing obliges the caller to call, the context to be cancelled or the child to exit.
FairSpec ==
    /\ Spec
    /\ WF_vars(WatcherSelect)
    /\ WF_vars(WatcherKill)
    /\ WF_vars(WatcherCancel)
    /\ WF_vars(CancelReturns)
    /\ WF_vars(WatcherWaitDone)
    /\ WF_vars(CmdWaitReturns)
    /\ WF_vars(CloseWaitDone)

TypeOK ==
    /\ ctxDone \in BOOLEAN
    /\ cancel \in Handlers
    /\ process \in {"none", "running", "zombie", "reaped"}
    /\ exitKind \in {"none", "exit0", "exit1", "killed"}
    /\ waitDone \in BOOLEAN
    /\ watcher \in {"none", "spawned", "parked", "woken", "inCancel", "done"}
    /\ chosen \in {"none", "ctx", "waitDone"}
    /\ callerPc \in {"idle", "cmdWait", "closeDone", "afterRun", "panicked"}
(***************************************************************************)
(* Properties of Cmd                                                       *)
(***************************************************************************)

\* Number of times the termination action ran: the handler or the default Kill.
Terminations == cancelCalls + killCalls

\* The outcome cmd.Wait reports for a child that exited by itself.
NaturalOutcome == IF exitKind = "exit0" THEN "nil" ELSE exitKind

\* C1: when Start fails inside Run, Run returns that failure, never success.
C1_RunReturnsStartFailure ==
    (op = "Run" /\ callerPc = "idle" /\ startErr # "nil") => runErr = startErr

\* C2: the termination action (the handler, or the default Kill) is invoked at most
\* once in the life of one Cmd.
C2_TerminationAtMostOnce == Terminations <= 1

C2_Witness ==
    /\ Terminations = 1
    /\ watcher = "done"
    /\ ctxDone /\ waitDone /\ process = "reaped"

\* C3 as stated: whenever Wait closes waitDone before the context is cancelled, the
\* termination action is never invoked.
C3_Original == hist.waitFirst => Terminations = 0

\* C3 amended: when Wait closes waitDone before the context is cancelled and the
\* goroutine has reached its select before the context is cancelled, the goroutine
\* takes the waitDone case and the termination action is never invoked.
C3_WaitFirstNoTermination ==
    (hist.waitFirst /\ hist.selectEarly) =>
        /\ Terminations = 0
        /\ chosen = "waitDone"
        /\ watcher \in {"woken", "done"}

C3_Witness ==
    /\ hist.waitFirst /\ hist.selectEarly
    /\ ctxDone
    /\ watcher = "done"
    /\ Terminations = 0

\* C4 as stated: for a process that exits by itself before the context is cancelled,
\* the termination action is never invoked and Wait returns the natural outcome.
C4_Original ==
    hist.exitBeforeCtx =>
        /\ Terminations = 0
        /\ (callerPc = "idle" /\ waitErr \in {"nil", "exit1", "killed"})
              => waitErr = NaturalOutcome

\* C4 amended: for a process that exits by itself before the context is cancelled,
\* Wait returns the natural outcome; the termination action is never invoked when
\* Wait has also closed waitDone, and the goroutine has reached its select, before
\* the context is cancelled. Cancelled earlier than that, the action may run once,
\* against the exited process, and does not change the outcome.
C4_NaturalExit ==
    hist.exitBeforeCtx =>
        /\ exitKind \in {"exit0", "exit1"}
        /\ (callerPc = "idle" /\ waitErr \in {"nil", "exit1", "killed"})
              => waitErr = NaturalOutcome
        /\ (hist.waitFirst /\ hist.selectEarly) => Terminations = 0
        /\ Terminations <= 1

C4_Witness ==
    /\ hist.exitBeforeCtx
    /\ ctxDone
    /\ op = "Wait" /\ callerPc = "idle" /\ waitErr = "exit1"
    /\ Terminations = 1

\* C5: a Start entered with the context already done returns ctx.Err() without
\* calling c.cmd.Start() and without starting the goroutine; when that was so at the
\* first Start, no process exists afterwards and the termination action never runs.
C5_StartAfterCancel ==
    /\ (op \in {"Start", "Run"} /\ hist.startSawDone) =>
          /\ startErr = "ctxErr"
          /\ ~hist.startSpawned
          /\ ~hist.startWent
    /\ hist.doneAtFirst = "yes" =>
          /\ process = "none"
          /\ watcher = "none"
          /\ Terminations = 0

C5_Witness ==
    /\ hist.doneAtFirst = "yes"
    /\ op = "Start" /\ startErr = "ctxErr"
    /\ process = "none"
\* Outcomes cmd.Wait reports for a child it reaped.
Outcomes == {"nil", "exit1", "killed"}

\* C6 as stated: with a nil handler, a context cancelled after a successful Start
\* makes Wait return the outcome of a forced termination.
C6_Original ==
    (/\ cancel = "nil"
     /\ hist.cancelStarted
     /\ waitDone /\ ~hist.waitFirst
     /\ callerPc = "idle" /\ waitErr \in Outcomes)
    => waitErr = "killed"

\* C6 amended: with a nil handler, when the context is cancelled after a successful
\* Start while the process is running and waitDone is open, the goroutine eventually
\* calls Kill, once, unless waitDone was closed before it reached its select and it
\* took that case, or a second Wait has crashed the program by closing waitDone again
\* (C9); a Wait in progress eventually returns; and when Kill found the process
\* running, the process was killed and Wait returns that outcome.
C6_DefaultKill ==
    /\ (cancel = "nil" /\ hist.cancelLive)
          ~> \/ killCalls = 1
             \/ hist.selectBoth /\ chosen = "waitDone"
             \/ callerPc = "panicked"
    /\ (cancel = "nil" /\ hist.cancelLive /\ callerPc = "cmdWait" /\ process # "reaped")
          ~> (callerPc = "idle" /\ waitDone /\ waitErr \in Outcomes)
    /\ [](cancel = "nil" /\ hist.cancelLive /\ ~hist.selectBoth /\ watcher = "done"
             => killCalls = 1)
    /\ [](cancel = "nil" /\ hist.killedRunning =>
             /\ exitKind = "killed"
             /\ (callerPc = "idle" /\ waitErr \in Outcomes) => waitErr = "killed")

C6_Witness ==
    /\ cancel = "nil"
    /\ hist.cancelLive /\ hist.killedRunning
    /\ killCalls = 1
    /\ op = "Wait" /\ callerPc = "idle" /\ waitErr = "killed"

\* C7 as stated: with a handler, a context cancelled after a successful Start, while
\* the process runs and Wait has not completed, gets the handler invoked exactly once.
C7_Original ==
    (cancel # "nil" /\ hist.cancelLive /\ watcher = "done") => cancelCalls = 1

\* C7 amended: with a handler, when the context is cancelled after a successful Start
\* while the process is running and waitDone is open, the handler is eventually
\* invoked, exactly once, unless the process exits and Wait closes waitDone before
\* the goroutine reaches its select and the goroutine takes the waitDone case, or a
\* second Wait has crashed the program by closing waitDone again (C9); then the
\* handler is never invoked. It is never invoked twice.
C7_HandlerInvokedOnce ==
    /\ (cancel # "nil" /\ hist.cancelLive)
          ~> \/ cancelCalls = 1
             \/ hist.selectBoth /\ chosen = "waitDone"
             \/ callerPc = "panicked"
    /\ [](cancel # "nil" /\ hist.cancelLive /\ ~hist.selectBoth /\ watcher = "done"
             => cancelCalls = 1)
    /\ [](cancelCalls <= 1)

C7_Witness ==
    /\ cancel # "nil"
    /\ hist.cancelLive
    /\ watcher = "done"
    /\ cancelCalls = 1

\* C8: with a handler set, the goroutine never kills the process itself: only the
\* handler's own Kill or the process's own exit ends it, so under a handler that does
\* not end it the process is never killed. The default Kill happens only without a
\* handler, and then no handler is called.
C8_HandlerOnly ==
    /\ cancel # "nil" =>
          /\ killCalls = 0
          /\ exitKind = "killed" => hist.handlerKilled
    /\ cancel = "noop" => exitKind # "killed"
    /\ cancel = "nil" => cancelCalls = 0

C8_Witness ==
    /\ cancel = "noop"
    /\ watcher = "done" /\ cancelCalls = 1
    /\ process = "running"
    /\ callerPc = "cmdWait"

\* C9: waitDone is closed exactly once: no sequence of Wait calls closes it a second
\* time or panics by closing it again.
C9_WaitDoneClosedOnce ==
    /\ closeCalls <= 1
    /\ callerPc # "panicked"
(***************************************************************************)
(* Properties of prefixSuffixSaver                                         *)
(***************************************************************************)

\* Number of bytes written so far.
Total == Len(stream)

\* The last k bytes of the stream.
LastOf(seq, k) == SubSeq(seq, Len(seq) - k + 1, Len(seq))

\* C10: once more than 2N bytes were written, however they were split over the Write
\* calls, Bytes() is the first N bytes of the stream, "\n... omitting K bytes ...\n"
\* with K = Total - 2N in decimal, and the last N bytes of the stream in the order
\* they were written.
C10_HeadMarkerTail ==
    Total > 2 * N =>
        /\ skipped = Total - 2 * N
        /\ Bytes = SubSeq(stream, 1, N)
                     \o OmittingHead \o FormatInt(Total - 2 * N) \o OmittingTail
                     \o LastOf(stream, N)

\* The case of the specification: N = 4 and "ABCDEFGHIJ" give
\* "ABCD\n... omitting 2 bytes ...\nGHIJ"; the ring has wrapped (suffixOff = 2).
C10_Witness ==
    /\ N = 4
    /\ stream = <<65, 66, 67, 68, 69, 70, 71, 72, 73, 74>>
    /\ suffixOff = 2
    /\ out = <<65, 66, 67, 68>>
               \o <<10, 46, 46, 46, 32, 111, 109, 105, 116, 116, 105, 110, 103, 32>>
               \o <<50>>
               \o <<32, 98, 121, 116, 101, 115, 32, 46, 46, 46, 10>>
               \o <<71, 72, 73, 74>>

\* C11: while no byte has been skipped, that is for every sequence of writes of at
\* most 2N bytes in all (so also of at most N), Bytes() is exactly the bytes written,
\* in order, without the omission message.
C11_NothingOmitted ==
    Total <= 2 * N =>
        /\ skipped = 0
        /\ Bytes = stream

C11_Witness ==
    /\ N = 3
    /\ Total = 6
    /\ Len(prefix) = 3 /\ Len(suffix) = 3
    /\ out = stream

\* C12: after any sequence of writes, skipped is the number of bytes written minus
\* the number of bytes retained, len(prefix) + len(suffix).
C12_SkippedCount == skipped = Total - (Len(prefix) + Len(suffix))

C12_Witness ==
    /\ N = 2
    /\ Total = 11
    /\ skipped = 7
    /\ suffixOff = 1

\* C13: after writes of any sizes len(prefix) <= N and len(suffix) <= N, so that no
\* more than 2N bytes are retained, and once len(prefix) = N no later write changes
\* the prefix.
C13_Bounded ==
    /\ [](Len(prefix) <= N /\ Len(suffix) <= N /\ Len(prefix) + Len(suffix) <= 2 * N)
    /\ [][Len(prefix) = N => prefix' = prefix]_vars

C13_Witness ==
    /\ N = 2
    /\ Len(prefix) = 2 /\ Len(suffix) = 2
    /\ Total = 13
    /\ prefix = <<65, 66>>

\* C17: Bytes() is a pure read: a call changes none of prefix, suffix, suffixOff and
\* skipped, and what it returned is what a further call with no write in between
\* returns, in every state of the saver.
C17_BytesPure ==
    /\ [][bufOp' = "Bytes" =>
            /\ prefix' = prefix /\ suffix' = suffix
            /\ suffixOff' = suffixOff /\ skipped' = skipped]_vars
    /\ [](bufOp = "Bytes" => out = Bytes)

\* Bytes() was called on a ring that has wrapped, after bytes were skipped.
C17_Witness ==
    /\ bufOp = "Bytes"
    /\ suffixOff > 0 /\ skipped > 0
    /\ Len(out) > Len(prefix) + Len(suffix)

\* C20: after any sequence of writes 0 <= suffixOff < N, suffixOff is not 0 only when
\* the suffix is full, and the suffix read from suffixOff and wrapping is the
\* retained tail of the stream in the order it was written.
C20_RingCursor ==
    /\ 0 <= suffixOff /\ suffixOff < N
    /\ suffixOff # 0 => Len(suffix) = N
    /\ Len(suffix) = minInt(N, IF Total > N THEN Total - N ELSE 0)
    /\ SuffixInOrder = LastOf(stream, Len(suffix))

C20_Witness ==
    /\ N = 3
    /\ Total = 11
    /\ suffixOff = 2
    /\ suffix = <<74, 75, 73>>

(***************************************************************************)
(* Further properties of Cmd                                               *)
(***************************************************************************)

\* C18: when the spawn fails, Start returns the spawn error as it is and starts no
\* goroutine; as long as no spawn has worked there is no goroutine, and the
\* termination action is never invoked, also when the context is cancelled later.
C18_SpawnFailure ==
    /\ (op \in {"Start", "Run"} /\ hist.startSpawned /\ process = "none") =>
          /\ startErr = "spawnErr"
          /\ ~hist.startWent
    /\ process = "none" =>
          /\ watcher = "none"
          /\ Terminations = 0

C18_Witness ==
    /\ op = "Start" /\ startErr = "spawnErr"
    /\ ctxDone
    /\ watcher = "none" /\ Terminations = 0

\* The goroutine of Start is over: it returned, or the program has crashed (a panic
\* ends every goroutine).
WatcherOver == watcher = "done" \/ callerPc = "panicked"

\* C19: a Start that succeeds starts the one goroutine there is, and no other Start
\* starts one; the goroutine stays parked only while neither ctx is done nor
\* waitDone is closed, and once either is, it eventually ends (handlers return) and
\* never runs again.
C19_OneWatcher ==
    /\ [](startErr = "nil" <=> hist.startWent)
    /\ [](watcher # "none" <=> process # "none")
    /\ [](watcher = "parked" => ~ctxDone /\ ~waitDone)
    /\ (watcher # "none" /\ (ctxDone \/ waitDone)) ~> WatcherOver
    /\ [][watcher = "done" => watcher' = "done"]_vars

C19_Witness ==
    /\ watcher = "done"
    /\ chosen = "waitDone"
    /\ ~ctxDone
    /\ process = "reaped"

(***************************************************************************)
(* Properties of CombinedOutput and Output                                 *)
(***************************************************************************)

\* C14: a CombinedOutput entered with Stdout or Stderr already set returns the
\* "already set" error, does not call Run (no spawn, no goroutine) and leaves both
\* handles as they were; this holds of every such call, so also of a repeated one.
C14_CombinedOutputBound ==
    (op = "CombinedOutput" /\ (io.preStdout # "nil" \/ io.preStderr # "nil")) =>
        /\ io.err \in {"stdoutSet", "stderrSet"}
        /\ ~io.ran
        /\ callerPc = "idle"
        /\ stdout = io.preStdout
        /\ stderr = io.preStderr
        /\ (hist.doneAtFirst = "unset" => process = "none" /\ watcher = "none")

\* A second CombinedOutput, after one that ran the command, has failed.
C14_Witness ==
    /\ op = "CombinedOutput"
    /\ io.preStdout = "buffer" /\ io.preStderr = "buffer"
    /\ io.err = "stdoutSet"
    /\ process = "reaped"

\* C15: the error Output returns carries the Bytes() of the saver exactly when
\* Stderr was nil on entry, so that Output made the saver, and Run ended with an
\* ExitError; a Stderr the caller had set is neither replaced nor read.
C15_StderrAttached ==
    /\ (op = "Output" /\ callerPc = "idle") =>
          /\ io.attached <=>
                (io.preStdout = "nil" /\ io.preStderr = "nil" /\ IsExitError(io.err))
          /\ io.attached => (io.eeStderr = Bytes /\ stderr = "saver")
    /\ (op = "Output" /\ io.preStderr # "nil") =>
          /\ stderr = io.preStderr
          /\ ~io.attached
    /\ stderr = "caller" => (bufOp = "none" /\ stream = <<>>)

\* Output returned an ExitError that carries what the process wrote to stderr, with
\* a byte omitted.
C15_Witness ==
    /\ op = "Output" /\ callerPc = "idle"
    /\ io.err = "exit1"
    /\ io.attached
    /\ skipped = 1
    /\ io.eeStderr = <<65>> \o OmittingHead \o <<49>> \o OmittingTail \o <<67>>

\* C16: an Output entered with Stdout already set returns the "already set" error,
\* does not call Run and sets neither Stdout nor Stderr.
C16_OutputBound ==
    (op = "Output" /\ io.preStdout # "nil") =>
        /\ io.err = "stdoutSet"
        /\ ~io.ran
        /\ callerPc = "idle"
        /\ stdout = io.preStdout
        /\ stderr = io.preStderr
        /\ (hist.doneAtFirst = "unset" => process = "none" /\ watcher = "none")

\* Output failed on a Stdout the caller had set, with Stderr still nil.
C16_Witness ==
    /\ op = "Output"
    /\ io.preStdout = "caller" /\ io.preStderr = "nil"
    /\ io.err = "stdoutSet"
    /\ stderr = "nil"
====
